---- MODULE Spec2Model ----
(***************************************************************************)
(* P2P fiat trading client library (p2p-fiat) of pezkuwi-p2p-mobile.       *)
(*                                                                         *)
(* The library functions acceptFiatOffer, markPaymentSent,                 *)
(* confirmPaymentReceived and cancelTrade are async: every `await` on the  *)
(* database is one atomic step on the shared tables, and calls of several  *)
(* clients interleave between the awaits.  The tables p2p_fiat_offers and  *)
(* p2p_fiat_trades and the internal balances are the shared state.  The    *)
(* database procedures accept_p2p_offer and release_escrow_internal are    *)
(* not part of the client sources; they follow the design document         *)
(* (tryReserve + lock + create, and releaseTransfer).                      *)
(***************************************************************************)
EXTENDS Integers, Sequences, FiniteSets, TLC

(* ---------------------------- bounds ----------------------------------- *)
\* number of client sessions, each of which runs one library call at a time
NProc == 3
\* number of rows the trades table can hold in the model
MaxTrades == 2
\* number of library calls started in one behaviour
MaxCalls == 4
\* the clock runs from 0 to MaxTime, in units of 60 minutes
MaxTime == 2

(* --------------------------- the scenario ------------------------------ *)
\* the maker of the offer and two other users
Maker == "m"
Users == {"m", "a", "b"}
\* supabase.auth.getUser(): the user logged in on each session
SessionUser == <<"a", "m", "b", "m", "a", "b">>
\* the offer: amount_crypto, order limits and reputation thresholds
TotalAmount == 10
MinOrderAmount == 2
MaxOrderAmount == 8
MinBuyerCompletedTrades == 1
MinBuyerReputation == 40
\* the offer's price_per_unit
PricePerUnit == 2
\* prices the maker may set on the offer later
PriceInputs == {2, 3}
\* the offer's time_limit_minutes and the 60 minutes of markPaymentSent, in
\* units of the clock
TimeLimit == 1
ConfirmationWindow == 1
\* amounts passed to requestWithdraw, lengths of the wallet address passed,
\* and amounts the funding side credits as deposits
WithdrawInputs == {0, 4}
WalletLengthInputs == {0, 48}
DepositInputs == {5}
\* the maker's deposit at the start
InitAvailable == 10
\* amounts a caller passes to acceptFiatOffer (0: amount omitted or 0)
AmountInputs == {0, 6}
\* amounts passed to acceptFiatOffer by clients that do not check the order
\* limits (below the minimum, above the maximum)
OrderAmountInputs == {0, 1, 6, 9}
\* thresholds an offer may set: min_buyer_completed_trades, min_buyer_reputation
MinTradesInputs == {0, 2, 3}
MinReputationInputs == {0, 50, 60}

Procs == 1..NProc
TradeIds == 1..MaxTrades

\* p2p_reputation rows: user "b" has no row
NoReputation == [completed_trades |-> -1, reputation_score |-> -1]
p2p_reputation ==
    [u \in Users |->
        CASE u = "m" -> [completed_trades |-> 3, reputation_score |-> 90]
          [] u = "a" -> [completed_trades |-> 2, reputation_score |-> 50]
          [] OTHER   -> NoReputation]

TradeStatus == {"pending", "payment_sent", "completed", "cancelled",
                "disputed", "refunded"}
OfferStatus == {"open", "paused", "locked", "completed", "cancelled"}

\* a row of p2p_fiat_trades (P2PFiatTrade); NoTrade is the absent row
NoTrade == [seller_id |-> "-", buyer_id |-> "-", crypto_amount |-> 0,
            price_per_unit |-> 0, fiat_amount |-> 0,
            escrow_locked_amount |-> 0, status |-> "none",
            payment_deadline |-> 0, confirmation_deadline |-> 0]

\* what a cancelTrade call found when it started (history)
NoPre == [remaining |-> 0, locked |-> 0, available |-> 0]

\* the locals of a library call
\* the row of p2p_fiat_offers (P2PFiatOffer) at creation, with the given
\* reputation thresholds
NewOffer(minTrades, minReputation) ==
    [remaining_amount |-> TotalAmount, status |-> "open",
     price_per_unit |-> PricePerUnit,
     min_buyer_completed_trades |-> minTrades,
     min_buyer_reputation |-> minReputation]

NoCall == [op |-> "idle", user |-> "-", tradeId |-> 0, amount |-> 0,
           trade |-> NoTrade, remaining |-> 0, pre |-> NoPre,
           result |-> "none"]

VARIABLES
    offer,      \* the row of p2p_fiat_offers: remaining_amount, status and
                \* the reputation thresholds
    trades,     \* p2p_fiat_trades: TradeIds -> row or NoTrade
    balances,   \* internal balances: Users -> available/locked
    pc,         \* position of every client call
    call,       \* locals of every client call
    ncalls,     \* calls started so far
    releases,   \* history: successful escrow releases per trade
    restores,   \* history: offer restores written per trade
    everSent,   \* history: trades that have been in payment_sent
    now         \* the clock (Date.now())

\* the state of one installation of the app
VARIABLES
    auth,       \* AuthProvider: its state, the localStorage items it keeps,
                \* the id installed by setCurrentUserId, and where initAuth,
                \* login or loginViaParams stands
    withdrawModal,  \* WithdrawModal of every session: the balance it loaded
    tradeDetail     \* view: the TradeDetail every user's dashboard shows
                    \* (the trade as fetched, actionLoading); run: the
                    \* handler of TradeDetail that runs in every session

\* the tables, the calls of the library and the clock
tradingVars == <<offer, trades, balances, pc, call, ncalls, releases, restores,
                 everSent, now>>

clientVars == <<auth, withdrawModal, tradeDetail>>

vars == <<offer, trades, balances, pc, call, ncalls, releases, restores,
          everSent, now, clientVars>>

(* --------------------------- AuthProvider ------------------------------ *)
\* the people who use the installation, their p2p_users id (data.user.id)
\* and their auth.users id (data.auth_user_id); "-" is null
AuthUsers == {"a", "b"}
UserIdOf == [a |-> "user_a", b |-> "user_b"]
AuthUserIdOf == [a |-> "auth_a", b |-> "auth_b"]

\* the URL parameters of a redirect from the mini-app, if any
NoParams == [tg_id |-> "-", expired |-> FALSE]
ParamInputs == {NoParams} \cup [tg_id : AuthUsers, expired : BOOLEAN]

\* what the edge function telegram-auth can answer for the person who: the
\* user with or without auth_user_id and session_token, an error or no
\* user, or a thrown exception
Responses(who) ==
    [kind : {"user"}, user : {who}, auth_user_id : {"-", AuthUserIdOf[who]},
     session_token : {"-", who}]
    \cup {[kind |-> k, user |-> "-", auth_user_id |-> "-", session_token |-> "-"] :
             k \in {"error", "throw"}}

\* the provider of an installation nobody has opened
AuthOff ==
    [pc |-> "off", user |-> "-", currentUserId |-> "-", isLoading |-> TRUE,
     p2p_session |-> "-", p2p_auth_user_id |-> "-",
     telegram |-> "-", params |-> NoParams, storedAuthUserId |-> "-"]

\* useState<InternalBalance | null>(null)
NoBalance == -1

\* no TradeDetail is shown; no handler runs
NoDetail == [mounted |-> FALSE, tradeId |-> 0, status |-> "none",
             actionLoading |-> FALSE]
NoRun == [kind |-> "none", tradeId |-> 0, current |-> FALSE]

ClientInit ==
    /\ auth = AuthOff
    /\ withdrawModal = [p \in Procs |-> NoBalance]
    /\ tradeDetail = [view |-> [u \in Users |-> NoDetail],
                      run |-> [p \in Procs |-> NoRun]]

(* ------------------------------ helpers -------------------------------- *)
Exists(t) == trades[t].status # "none"

NumTrades == Cardinality({t \in TradeIds : Exists(t)})

\* accepts in flight that may still insert a row
AcceptsInFlight == Cardinality({p \in Procs : call[p].op = "accept"
                                              /\ pc[p] # "done"})

RECURSIVE SumOver(_, _)
SumOver(S, f) ==
    IF S = {} THEN 0
    ELSE LET x == CHOOSE y \in S : TRUE
         IN  f[x] + SumOver(S \ {x}, f)

\* what is kept of a call once it has returned or thrown
Outcome(c, res) ==
    [NoCall EXCEPT !.op = c.op, !.tradeId = c.tradeId, !.amount = c.amount,
                   !.pre = c.pre, !.result = res]

\* the call with locals c returns (res = "ok") or throws (res names the error)
FinishWith(p, c, res) ==
    /\ pc' = [pc EXCEPT ![p] = "done"]
    /\ call' = [call EXCEPT ![p] = Outcome(c, res)]

Finish(p, res) == FinishWith(p, call[p], res)

Goto(p, label) == pc' = [pc EXCEPT ![p] = label]

NoteSent == everSent' = everSent \cup {t \in TradeIds : trades'[t].status = "payment_sent"}

(* ------------------------------- Init ---------------------------------- *)
Init ==
    /\ now = 0
    /\ ClientInit
    /\ offer = NewOffer(MinBuyerCompletedTrades, MinBuyerReputation)
    /\ trades = [t \in TradeIds |-> NoTrade]
    /\ balances = [u \in Users |->
                     [available_balance |-> IF u = Maker THEN InitAvailable ELSE 0,
                      locked_balance |-> 0]]
    /\ pc = [p \in Procs |-> "idle"]
    /\ call = [p \in Procs |-> NoCall]
    /\ ncalls = 0
    /\ releases = [t \in TradeIds |-> 0]
    /\ restores = [t \in TradeIds |-> 0]
    /\ everSent = {}

(* ------------------------ starting a library call ---------------------- *)
\* a session that runs no call may start one
CanCall(p) == pc[p] \in {"idle", "done"} /\ ncalls < MaxCalls

\* the locals of a new call of operation o by session p
NewCall(p, o, t, a) ==
    [NoCall EXCEPT !.op = o, !.user = SessionUser[p], !.tradeId = t, !.amount = a]

(* --------------------------- acceptFiatOffer --------------------------- *)
\* a slip: the amount of the call is ignored
TradeAmountIgnoresAmount(amount, remaining) == remaining

\* a slip: an amount of 0 is passed on as it is
TradeAmountKeepsZero(amount, remaining) == amount

\* const tradeAmount = amount || offer.remaining_amount
TradeAmount(amount, remaining) == IF amount # 0 THEN amount ELSE remaining

\* a slip: the reputation score is not compared
ReputationOkTradesOnly(u) ==
    /\ p2p_reputation[u] # NoReputation
    /\ ~(p2p_reputation[u].completed_trades < offer.min_buyer_completed_trades)

\* the reputation requirements of acceptFiatOffer
ReputationRequired ==
    offer.min_buyer_completed_trades > 0 \/ offer.min_buyer_reputation > 0

ReputationOk(u) ==
    /\ p2p_reputation[u] # NoReputation
    /\ ~(p2p_reputation[u].completed_trades < offer.min_buyer_completed_trades)
    /\ ~(p2p_reputation[u].reputation_score < offer.min_buyer_reputation)

\* a slip: the rpc is called whatever the reputation
ReadOfferUnchecked(p, c) ==
    /\ call' = [call EXCEPT ![p] = [c EXCEPT !.remaining = offer.remaining_amount]]
    /\ Goto(p, "af_rpc")

\* getUser, select the offer, then (if it sets thresholds) the caller's
\* p2p_reputation row, and check it; c holds the locals of the call
ReadOfferAndCheck(p, c) ==
    IF ReputationRequired /\ ~ReputationOk(c.user)
    THEN FinishWith(p, c, "InsufficientHistory")
    ELSE /\ call' = [call EXCEPT ![p] = [c EXCEPT !.remaining = offer.remaining_amount]]
         /\ Goto(p, "af_rpc")

\* acceptFiatOffer({offerId, buyerWallet, amount}) up to the rpc
CallAccept(p) ==
    /\ CanCall(p)
    /\ NumTrades + AcceptsInFlight < MaxTrades
    /\ \E a \in AmountInputs : ReadOfferAndCheck(p, NewCall(p, "accept", 0, a))
    /\ ncalls' = ncalls + 1
    /\ UNCHANGED <<offer, trades, balances, releases, restores, everSent, now,
                   clientVars>>

\* the same step of a call that has already started
AfReadOffer(p) ==
    /\ pc[p] = "af_offer"
    /\ ReadOfferAndCheck(p, call[p])
    /\ UNCHANGED <<offer, trades, balances, ncalls, releases, restores,
                   everSent, now,
                   clientVars>>

\* a slip: the order limits are not compared
tryReserveResultWithoutLimits(o, amount) ==
    CASE o.status # "open"           -> "OfferNotOpen"
      [] amount <= 0                 -> "ValidationError"
      [] amount > o.remaining_amount -> "AmountExceedsRemaining"
      [] OTHER                       -> "ok"

\* OfferBook.tryReserve: "ok" or the error of the compare-and-decrement
tryReserveResult(o, amount) ==
    CASE o.status # "open"           -> "OfferNotOpen"
      [] amount <= 0                 -> "ValidationError"
      [] amount > o.remaining_amount -> "AmountExceedsRemaining"
      [] amount < MinOrderAmount     -> "BelowMinOrder"
      [] amount > MaxOrderAmount     -> "AboveMaxOrder"
      [] OTHER                       -> "ok"

\* OfferBook.tryReserve: the offer after the decrement
tryReserve(o, amount) ==
    [o EXCEPT !.remaining_amount = o.remaining_amount - amount,
              !.status = IF o.remaining_amount - amount = 0 THEN "locked" ELSE o.status]

\* LedgerStore.lock
lockOk(b, u, amount) == b[u].available_balance >= amount

\* a slip: the amount is added to locked and not taken from available
lockWithoutDebit(b, u, amount) ==
    [b EXCEPT ![u].locked_balance = @ + amount]

lock(b, u, amount) ==
    [b EXCEPT ![u].available_balance = @ - amount,
              ![u].locked_balance = @ + amount]

\* the row accept_p2p_offer inserts for a trade of amount on offer o: the
\* price is the offer's at that moment, the escrow is the amount
NewTrade(o, buyer, amount) ==
    [seller_id |-> Maker, buyer_id |-> buyer,
     crypto_amount |-> amount,
     price_per_unit |-> o.price_per_unit,
     fiat_amount |-> amount * o.price_per_unit,
     escrow_locked_amount |-> amount,
     status |-> "pending",
     payment_deadline |-> now + TimeLimit, confirmation_deadline |-> 0]

\* the id of the row the next insert creates
NewTradeId == CHOOSE t \in TradeIds : ~Exists(t) /\ \A s \in TradeIds : s < t => Exists(s)

\* a slip: the reservation is kept when the lock fails
accept_p2p_offer_uncompensated(p, buyer, amount) ==
    IF tryReserveResult(offer, amount) # "ok"
    THEN /\ Finish(p, tryReserveResult(offer, amount))
         /\ UNCHANGED <<offer, balances, trades>>
    ELSE IF ~lockOk(balances, Maker, amount)
    THEN /\ offer' = tryReserve(offer, amount)
         /\ Finish(p, "MakerInsufficientBalance")
         /\ UNCHANGED <<balances, trades>>
    ELSE /\ offer' = tryReserve(offer, amount)
         /\ balances' = lock(balances, Maker, amount)
         /\ trades' = [trades EXCEPT ![NewTradeId] =
                          NewTrade(offer, buyer, amount)]
         /\ FinishWith(p, [call[p] EXCEPT !.tradeId = NewTradeId], "ok")

\* rpc('accept_p2p_offer'): reserve, lock and create the trade in one
\* transaction; a failure of any part leaves every table unchanged
accept_p2p_offer(p, buyer, amount) ==
    IF tryReserveResult(offer, amount) # "ok"
    THEN /\ Finish(p, tryReserveResult(offer, amount))
         /\ UNCHANGED <<offer, balances, trades>>
    ELSE IF ~lockOk(balances, Maker, amount)
    THEN /\ Finish(p, "MakerInsufficientBalance")
         /\ UNCHANGED <<offer, balances, trades>>
    ELSE /\ offer' = tryReserve(offer, amount)
         /\ balances' = lock(balances, Maker, amount)
         /\ trades' = [trades EXCEPT ![NewTradeId] =
                          NewTrade(offer, buyer, amount)]
         /\ FinishWith(p, [call[p] EXCEPT !.tradeId = NewTradeId], "ok")

AfRpc(p) ==
    /\ pc[p] = "af_rpc"
    /\ accept_p2p_offer(p, call[p].user,
                        TradeAmount(call[p].amount, call[p].remaining))
    /\ UNCHANGED <<ncalls, releases, restores, everSent, now,
                   clientVars>>

(* ---------------------- TradeModal: Initiate Trade --------------------- *)
\* the offer the modal was opened with: the row as it is now, or as it was
\* listed before any trade
ShownOffers == {offer, [offer EXCEPT !.remaining_amount = TotalAmount]}

\* TradeModal.handleInitiateTrade: the checks on the offer shown, then
\* acceptFiatOffer with the amount typed
handleInitiateTrade(p) ==
    /\ CanCall(p)
    /\ NumTrades + AcceptsInFlight < MaxTrades
    /\ \E cryptoAmount \in OrderAmountInputs, shown \in ShownOffers :
         LET c == NewCall(p, "accept", 0, cryptoAmount)
             isValidAmount == cryptoAmount > 0
                              /\ cryptoAmount <= shown.remaining_amount
             meetsMinOrder == MinOrderAmount = 0 \/ cryptoAmount >= MinOrderAmount
             meetsMaxOrder == MaxOrderAmount = 0 \/ cryptoAmount <= MaxOrderAmount
         IN  IF Maker = SessionUser[p] THEN FinishWith(p, c, "OwnOffer")
             ELSE IF ~isValidAmount THEN FinishWith(p, c, "InvalidAmount")
             ELSE IF ~meetsMinOrder THEN FinishWith(p, c, "MinimumOrder")
             ELSE IF ~meetsMaxOrder THEN FinishWith(p, c, "MaximumOrder")
             ELSE ReadOfferAndCheck(p, c)
    /\ ncalls' = ncalls + 1
    /\ UNCHANGED <<offer, trades, balances, releases, restores, everSent, now,
                   clientVars>>

(* --------------------------- markPaymentSent --------------------------- *)
\* a slip: the confirmation deadline is not written
MpUpdateWithoutDeadline(p) ==
    /\ CanCall(p)
    /\ \E t \in TradeIds :
         /\ Exists(t)
         /\ trades' = [trades EXCEPT ![t].status = "payment_sent"]
         /\ FinishWith(p, NewCall(p, "mark", t, 0), "ok")
    /\ ncalls' = ncalls + 1
    /\ NoteSent
    /\ UNCHANGED <<offer, balances, releases, restores, now,
                   clientVars>>

\* markPaymentSent(tradeId): update p2p_fiat_trades set
\* status = 'payment_sent', confirmation_deadline = now + 60 min
\* where id = tradeId
MpUpdate(p) ==
    /\ CanCall(p)
    /\ \E t \in TradeIds :
         /\ Exists(t)
         /\ trades' = [trades EXCEPT
                          ![t].status = "payment_sent",
                          ![t].confirmation_deadline = now + ConfirmationWindow]
         /\ FinishWith(p, NewCall(p, "mark", t, 0), "ok")
    /\ ncalls' = ncalls + 1
    /\ NoteSent
    /\ UNCHANGED <<offer, balances, releases, restores, now,
                   clientVars>>

\* the update returns an error: nothing is written and the call throws
MpUpdateError(p) ==
    /\ CanCall(p)
    /\ \E t \in TradeIds :
         /\ Exists(t)
         /\ FinishWith(p, NewCall(p, "mark", t, 0), "UpdateError")
    /\ ncalls' = ncalls + 1
    /\ UNCHANGED <<offer, trades, balances, releases, restores, everSent, now,
                   clientVars>>

(* ------------------------ confirmPaymentReceived ----------------------- *)
\* a slip: the caller is not compared with the seller
NotSellerUnchecked(trade, user) == FALSE

\* if (trade.seller_id !== sellerId) throw 'Only seller can confirm'
NotSeller(trade, user) == trade.seller_id # user

\* confirmPaymentReceived(tradeId): getUser, select the trade and check
\* seller and status
CpReadTrade(p) ==
    /\ CanCall(p)
    /\ \E t \in TradeIds :
         LET trade == trades[t]
             c == NewCall(p, "confirm", t, 0) IN
         /\ Exists(t)
         /\ IF NotSeller(trade, c.user)
            THEN FinishWith(p, c, "OnlySellerCanConfirm")
            ELSE IF trade.status # "payment_sent"
            THEN FinishWith(p, c, "PaymentNotMarkedAsSent")
            ELSE /\ call' = [call EXCEPT ![p] = [c EXCEPT !.trade = trade]]
                 /\ Goto(p, "cp_release")
    /\ ncalls' = ncalls + 1
    /\ UNCHANGED <<offer, trades, balances, releases, restores, everSent, now,
                   clientVars>>

\* LedgerStore.releaseTransfer
releaseTransferOk(b, from, amount) == b[from].locked_balance >= amount

\* a slip: the amount is credited and not taken from the sender's locked part
releaseTransferWithoutDebit(b, from, to, amount) ==
    [b EXCEPT ![to].available_balance = @ + amount]

releaseTransfer(b, from, to, amount) ==
    LET b1 == [b EXCEPT ![from].locked_balance = @ - amount]
    IN  [b1 EXCEPT ![to].available_balance = @ + amount]

\* rpc('release_escrow_internal') with the trade as read before
CpRelease(p) ==
    /\ pc[p] = "cp_release"
    /\ LET trade == call[p].trade IN
       IF releaseTransferOk(balances, trade.seller_id, trade.crypto_amount)
       THEN /\ balances' = releaseTransfer(balances, trade.seller_id,
                                           trade.buyer_id, trade.crypto_amount)
            /\ releases' = [releases EXCEPT ![call[p].tradeId] = @ + 1]
            /\ Goto(p, "cp_update")
            /\ UNCHANGED call
       ELSE /\ Finish(p, "LockMismatch")
            /\ UNCHANGED <<balances, releases>>
    /\ UNCHANGED <<offer, trades, ncalls, restores, everSent, now,
                   clientVars>>

\* a slip: the fiat amount is computed again from the offer's price
CpUpdateRecomputesFiat(p) ==
    /\ pc[p] = "cp_update"
    /\ trades' = [trades EXCEPT
                     ![call[p].tradeId].status = "completed",
                     ![call[p].tradeId].fiat_amount =
                         trades[call[p].tradeId].crypto_amount * offer.price_per_unit]
    /\ Finish(p, "ok")
    /\ UNCHANGED <<offer, balances, ncalls, releases, restores, everSent, now,
                   clientVars>>

\* update p2p_fiat_trades set status = 'completed' where id = tradeId
CpUpdate(p) ==
    /\ pc[p] = "cp_update"
    /\ trades' = [trades EXCEPT ![call[p].tradeId].status = "completed"]
    /\ Finish(p, "ok")
    /\ UNCHANGED <<offer, balances, ncalls, releases, restores, everSent, now,
                   clientVars>>

\* the update returns an error, which the code does not look at
CpUpdateError(p) ==
    /\ pc[p] = "cp_update"
    /\ Finish(p, "ok")
    /\ UNCHANGED <<offer, trades, balances, ncalls, releases, restores,
                   everSent, now,
                   clientVars>>

(* ------------------------------ cancelTrade ---------------------------- *)
\* cancelTrade(tradeId): getUser, select the trade and check that it is
\* pending
CtReadTrade(p) ==
    /\ CanCall(p)
    /\ \E t \in TradeIds :
         LET trade == trades[t]
             c == NewCall(p, "cancel", t, 0) IN
         /\ Exists(t)
         /\ IF trade.status # "pending"
            THEN FinishWith(p, c, "CannotCancelAtThisStage")
            ELSE /\ call' = [call EXCEPT ![p] =
                                [c EXCEPT !.trade = trade,
                                          !.pre = [remaining |-> offer.remaining_amount,
                                                   locked |-> balances[trade.seller_id].locked_balance,
                                                   available |-> balances[trade.seller_id].available_balance]]]
                 /\ Goto(p, "ct_update")
    /\ ncalls' = ncalls + 1
    /\ UNCHANGED <<offer, trades, balances, releases, restores, everSent, now,
                   clientVars>>

\* update p2p_fiat_trades set status = 'cancelled' where id = tradeId
CtUpdateTrade(p) ==
    /\ pc[p] = "ct_update"
    /\ trades' = [trades EXCEPT ![call[p].tradeId].status = "cancelled"]
    /\ Goto(p, "ct_offer")
    /\ UNCHANGED <<offer, balances, call, ncalls, releases, restores,
                   everSent, now,
                   clientVars>>

\* the update returns an error, which the code does not look at
CtUpdateTradeError(p) ==
    /\ pc[p] = "ct_update"
    /\ Goto(p, "ct_offer")
    /\ UNCHANGED <<offer, trades, balances, call, ncalls, releases,
                   restores, everSent, now,
                   clientVars>>

\* the select returns no row (an error): if (offer) is false and the call
\* returns without the restore
CtReadOfferNone(p) ==
    /\ pc[p] = "ct_offer"
    /\ Finish(p, "ok")
    /\ UNCHANGED <<offer, trades, balances, ncalls, releases, restores,
                   everSent, now,
                   clientVars>>

\* select remaining_amount of the offer
CtReadOffer(p) ==
    /\ pc[p] = "ct_offer"
    /\ call' = [call EXCEPT ![p].remaining = offer.remaining_amount]
    /\ Goto(p, "ct_restore")
    /\ UNCHANGED <<offer, trades, balances, ncalls, releases, restores,
                   everSent, now,
                   clientVars>>

\* a slip: the offer is reopened with the remaining amount as read
CtRestoreOfferKeepsRemaining(p) ==
    /\ pc[p] = "ct_restore"
    /\ offer' = [offer EXCEPT !.remaining_amount = call[p].remaining,
                              !.status = "open"]
    /\ restores' = [restores EXCEPT ![call[p].tradeId] = @ + 1]
    /\ Finish(p, "ok")
    /\ UNCHANGED <<trades, balances, ncalls, releases, everSent, now,
                   clientVars>>

\* update p2p_fiat_offers set remaining_amount = read + crypto_amount,
\* status = 'open'
CtRestoreOffer(p) ==
    /\ pc[p] = "ct_restore"
    /\ offer' = [offer EXCEPT
                    !.remaining_amount = call[p].remaining + call[p].trade.crypto_amount,
                    !.status = "open"]
    /\ restores' = [restores EXCEPT ![call[p].tradeId] = @ + 1]
    /\ Finish(p, "ok")
    /\ UNCHANGED <<trades, balances, ncalls, releases, everSent, now,
                   clientVars>>

\* the update returns an error, which the code does not look at
CtRestoreOfferError(p) ==
    /\ pc[p] = "ct_restore"
    /\ Finish(p, "ok")
    /\ UNCHANGED <<offer, trades, balances, ncalls, releases, restores,
                   everSent, now,
                   clientVars>>

(* -------------------- withdrawals and deposits ------------------------- *)
\* a slip: the available balance is not compared with the amount
debitOkUnchecked(b, u, amount) == TRUE

\* LedgerStore.debit
debitOk(b, u, amount) == b[u].available_balance >= amount

debit(b, u, amount) == [b EXCEPT ![u].available_balance = @ - amount]

\* LedgerStore.credit
credit(b, u, amount) == [b EXCEPT ![u].available_balance = @ + amount]

\* rpc('request_withdraw'): debit the caller's available balance
request_withdraw(p, c, u, amount) ==
    IF debitOk(balances, u, amount)
    THEN /\ balances' = debit(balances, u, amount)
         /\ FinishWith(p, c, "ok")
    ELSE /\ FinishWith(p, c, "InsufficientBalance")
         /\ UNCHANGED balances

\* a slip: the success flag of the answer is not read
RequestWithdrawIgnoresFailure(p) ==
    /\ CanCall(p)
    /\ \E amount \in WithdrawInputs, walletLength \in WalletLengthInputs :
         LET c == NewCall(p, "withdraw", 0, amount) IN
         IF amount <= 0
         THEN FinishWith(p, c, "AmountMustBePositive") /\ UNCHANGED balances
         ELSE IF walletLength < 40
         THEN FinishWith(p, c, "InvalidWalletAddress") /\ UNCHANGED balances
         ELSE /\ FinishWith(p, c, "ok")
              /\ balances' = IF debitOk(balances, SessionUser[p], amount)
                             THEN debit(balances, SessionUser[p], amount)
                             ELSE balances
    /\ ncalls' = ncalls + 1
    /\ UNCHANGED <<offer, trades, releases, restores, everSent, now,
                   clientVars>>

\* requestWithdraw(token, amount, walletAddress)
RequestWithdraw(p) ==
    /\ CanCall(p)
    /\ \E amount \in WithdrawInputs, walletLength \in WalletLengthInputs :
         LET c == NewCall(p, "withdraw", 0, amount) IN
         IF amount <= 0
         THEN FinishWith(p, c, "AmountMustBePositive") /\ UNCHANGED balances
         ELSE IF walletLength < 40
         THEN FinishWith(p, c, "InvalidWalletAddress") /\ UNCHANGED balances
         ELSE request_withdraw(p, c, SessionUser[p], amount)
    /\ ncalls' = ncalls + 1
    /\ UNCHANGED <<offer, trades, releases, restores, everSent, now,
                   clientVars>>

\* the funding side credits a verified deposit to a user
Deposit ==
    /\ ncalls < MaxCalls
    /\ \E u \in Users, amount \in DepositInputs :
         balances' = credit(balances, u, amount)
    /\ ncalls' = ncalls + 1
    /\ UNCHANGED <<offer, trades, pc, call, releases, restores, everSent, now,
                   clientVars>>

(* ------------------- AuthProvider: initAuth and login ------------------ *)
\* const p2pUserId = data.auth_user_id || data.user.id (login, loginViaParams)
p2pUserId(r) ==
    IF r.auth_user_id # "-" THEN r.auth_user_id ELSE UserIdOf[r.user]

\* a slip: the provider is left loading when the login by parameters is over
loginViaParamsWithoutFinally(a, r) ==
    IF r.kind = "user"
    THEN [a EXCEPT !.user = r.user,
                   !.currentUserId = p2pUserId(r),
                   !.p2p_session = IF r.session_token # "-"
                                   THEN r.session_token ELSE @,
                   !.p2p_auth_user_id = IF r.auth_user_id # "-"
                                        THEN r.auth_user_id ELSE @,
                   !.params = NoParams,
                   !.pc = "ready"]
    ELSE [a EXCEPT !.isLoading = FALSE, !.pc = "ready"]

\* loginViaParams after its invoke, and the rest of initAuth: the answer is
\* installed and stored and the parameters are cleared, or the error is
\* caught; finally setIsLoading(false)
loginViaParams(a, r) ==
    IF r.kind = "user"
    THEN [a EXCEPT !.user = r.user,
                   !.currentUserId = p2pUserId(r),
                   !.p2p_session = IF r.session_token # "-"
                                   THEN r.session_token ELSE @,
                   !.p2p_auth_user_id = IF r.auth_user_id # "-"
                                        THEN r.auth_user_id ELSE @,
                   !.params = NoParams,
                   !.isLoading = FALSE, !.pc = "ready"]
    ELSE [a EXCEPT !.isLoading = FALSE, !.pc = "ready"]

\* login after its invoke: the same without parameters; the error is kept
\* in the state
login(a, r) ==
    IF r.kind = "user"
    THEN [a EXCEPT !.user = r.user,
                   !.currentUserId = p2pUserId(r),
                   !.p2p_session = IF r.session_token # "-"
                                   THEN r.session_token ELSE @,
                   !.p2p_auth_user_id = IF r.auth_user_id # "-"
                                        THEN r.auth_user_id ELSE @,
                   !.isLoading = FALSE, !.pc = "ready"]
    ELSE [a EXCEPT !.isLoading = FALSE, !.pc = "ready"]

\* initAuth after the invoke with the stored session token: the user is
\* installed with data.auth_user_id || storedAuthUserId || data.user.id; an
\* error or no user goes on to the other ways; an exception clears the two
\* stored items first
restoreSession(a, r) ==
    CASE r.kind = "user" ->
           [a EXCEPT !.user = r.user,
                     !.currentUserId =
                         IF r.auth_user_id # "-" THEN r.auth_user_id
                         ELSE IF a.storedAuthUserId # "-" THEN a.storedAuthUserId
                         ELSE UserIdOf[r.user],
                     !.p2p_auth_user_id = IF r.auth_user_id # "-"
                                          THEN r.auth_user_id ELSE @,
                     !.isLoading = FALSE, !.pc = "ready"]
      [] r.kind = "error" -> [a EXCEPT !.pc = "ia_tg"]
      [] OTHER -> [a EXCEPT !.p2p_session = "-", !.p2p_auth_user_id = "-",
                            !.pc = "ia_tg"]

\* initAuth: read the two stored items
IaStart ==
    /\ auth.pc = "ia_start"
    /\ auth' = [auth EXCEPT !.storedAuthUserId = auth.p2p_auth_user_id,
                            !.pc = IF auth.p2p_session # "-"
                                   THEN "ia_invoke" ELSE "ia_tg"]
    /\ UNCHANGED <<tradingVars, withdrawModal, tradeDetail>>

\* initAuth: the invoke with the session token returns or throws
IaInvoke ==
    /\ auth.pc = "ia_invoke"
    /\ \E r \in Responses(auth.p2p_session) : auth' = restoreSession(auth, r)
    /\ UNCHANGED <<tradingVars, withdrawModal, tradeDetail>>

\* initAuth: with Telegram's initData call login(), which sets isLoading
IaTg ==
    /\ auth.pc = "ia_tg"
    /\ auth' = IF auth.telegram # "-"
               THEN [auth EXCEPT !.isLoading = TRUE, !.pc = "lg_invoke"]
               ELSE [auth EXCEPT !.pc = "ia_params"]
    /\ UNCHANGED <<tradingVars, withdrawModal, tradeDetail>>

\* login: without initData it throws at once; its invoke returns or throws
LgInvoke ==
    /\ auth.pc = "lg_invoke"
    /\ IF auth.telegram = "-"
       THEN auth' = [auth EXCEPT !.isLoading = FALSE, !.pc = "ready"]
       ELSE \E r \in Responses(auth.telegram) : auth' = login(auth, r)
    /\ UNCHANGED <<tradingVars, withdrawModal, tradeDetail>>

\* initAuth: without parameters of the mini-app setIsLoading(false); with
\* them loginViaParams, which returns false for an old timestamp and sets
\* isLoading otherwise
IaParams ==
    /\ auth.pc = "ia_params"
    /\ auth' = IF auth.params = NoParams \/ auth.params.expired
               THEN [auth EXCEPT !.isLoading = FALSE, !.pc = "ready"]
               ELSE [auth EXCEPT !.isLoading = TRUE, !.pc = "lp_invoke"]
    /\ UNCHANGED <<tradingVars, withdrawModal, tradeDetail>>

\* loginViaParams: its invoke returns or throws
LpInvoke ==
    /\ auth.pc = "lp_invoke"
    /\ \E r \in Responses(auth.params.tg_id) : auth' = loginViaParams(auth, r)
    /\ UNCHANGED <<tradingVars, withdrawModal, tradeDetail>>

\* logout(): the user, the installed id and the stored session token go
Logout ==
    /\ auth.pc = "ready"
    /\ auth.user # "-"
    /\ auth' = [auth EXCEPT !.user = "-", !.currentUserId = "-",
                            !.p2p_session = "-"]
    /\ UNCHANGED <<tradingVars, withdrawModal, tradeDetail>>

\* the login button of a provider without user
LoginButton ==
    /\ auth.pc = "ready"
    /\ auth.user = "-"
    /\ auth' = [auth EXCEPT !.isLoading = TRUE, !.pc = "lg_invoke"]
    /\ UNCHANGED <<tradingVars, withdrawModal, tradeDetail>>

\* the app is opened again, by the Telegram account and with the URL
\* parameters of this time: a new provider over the same localStorage
Mount ==
    /\ auth.pc \in {"off", "ready"}
    /\ \E t \in AuthUsers \cup {"-"}, q \in ParamInputs :
         auth' = [auth EXCEPT !.user = "-", !.currentUserId = "-",
                              !.isLoading = TRUE, !.telegram = t,
                              !.params = q, !.storedAuthUserId = "-",
                              !.pc = "ia_start"]
    /\ UNCHANGED <<tradingVars, withdrawModal, tradeDetail>>

(* ------------------------ the deadline sweep --------------------------- *)
\* OfferBook.restore
restore(o, amount) ==
    [o EXCEPT !.remaining_amount = @ + amount,
              !.status = IF @ \in {"locked", "completed"} THEN "open" ELSE @]

\* LedgerStore.unlock
unlockOk(b, u, amount) == b[u].locked_balance >= amount

unlock(b, u, amount) ==
    [b EXCEPT ![u].locked_balance = @ - amount,
              ![u].available_balance = @ + amount]

\* the sweep finds trade t pending after its payment deadline: one
\* transaction that cancels it as a cancel does
deadlineExpire(t) ==
    /\ trades[t].status = "pending"
    /\ now > trades[t].payment_deadline
    /\ unlockOk(balances, trades[t].seller_id, trades[t].escrow_locked_amount)
    /\ trades' = [trades EXCEPT ![t].status = "cancelled"]
    /\ offer' = restore(offer, trades[t].crypto_amount)
    /\ balances' = unlock(balances, trades[t].seller_id,
                          trades[t].escrow_locked_amount)
    /\ restores' = [restores EXCEPT ![t] = @ + 1]
    /\ UNCHANGED <<pc, call, ncalls, releases, everSent, now,
                   clientVars>>

\* the sweep finds trade t in payment_sent after its confirmation deadline
confirmationDeadlineExpire(t) ==
    /\ trades[t].status = "payment_sent"
    /\ now > trades[t].confirmation_deadline
    /\ trades' = [trades EXCEPT ![t].status = "disputed"]
    /\ UNCHANGED <<offer, balances, pc, call, ncalls, releases, restores,
                   everSent, now,
                   clientVars>>

\* the clock advances
Tick ==
    /\ now < MaxTime
    /\ now' = now + 1
    /\ UNCHANGED <<offer, trades, balances, pc, call, ncalls, releases,
                   restores, everSent, clientVars>>

(* ---------------------------- WithdrawModal --------------------------- *)
\* fetchBalance: getInternalBalance answers the row of the token or null
fetchBalance(p) ==
    /\ \E bal \in {balances[SessionUser[p]].available_balance, NoBalance} :
         withdrawModal' = [withdrawModal EXCEPT ![p] = bal]
    /\ UNCHANGED <<tradingVars, auth, tradeDetail>>

\* handleWithdraw: the checks of the modal against the balance it loaded,
\* then requestWithdraw(token, withdrawAmount, walletAddress)
handleWithdraw(p) ==
    /\ CanCall(p)
    /\ \E withdrawAmount \in WithdrawInputs, walletLength \in WalletLengthInputs :
         LET c == NewCall(p, "withdraw", 0, withdrawAmount)
             balance == withdrawModal[p]
         IN  IF walletLength = 0
             THEN FinishWith(p, c, "EnterWalletAddress") /\ UNCHANGED balances
             ELSE IF withdrawAmount <= 0
             THEN FinishWith(p, c, "EnterValidAmount") /\ UNCHANGED balances
             ELSE IF balance # NoBalance /\ withdrawAmount > balance
             THEN FinishWith(p, c, "InsufficientBalanceShown") /\ UNCHANGED balances
             ELSE IF walletLength < 40
             THEN FinishWith(p, c, "InvalidWalletAddress") /\ UNCHANGED balances
             ELSE request_withdraw(p, c, SessionUser[p], withdrawAmount)
    /\ ncalls' = ncalls + 1
    /\ UNCHANGED <<offer, trades, releases, restores, everSent, now,
                   clientVars>>

(* ----------------------------- TradeDetail ---------------------------- *)
\* P2PDashboard shows TradeDetail for a trade of the user: a new component
\* with trade null and actionLoading false
OpenDetail(u) ==
    /\ ~tradeDetail.view[u].mounted
    /\ \E t \in TradeIds :
         /\ Exists(t)
         /\ u \in {trades[t].buyer_id, trades[t].seller_id}
         /\ tradeDetail' = [tradeDetail EXCEPT
                               !.view[u] = [NoDetail EXCEPT !.mounted = TRUE,
                                                           !.tradeId = t]]
    /\ UNCHANGED <<tradingVars, auth, withdrawModal>>

\* the Back button of the dashboard: the component is unmounted; a handler
\* that runs goes on without it
BackFromDetail(u) ==
    /\ tradeDetail.view[u].mounted
    /\ tradeDetail' = [tradeDetail EXCEPT
                          !.view[u] = NoDetail,
                          !.run = [p \in Procs |->
                                     IF SessionUser[p] = u
                                     THEN [@[p] EXCEPT !.current = FALSE]
                                     ELSE @[p]]]
    /\ UNCHANGED <<tradingVars, auth, withdrawModal>>

\* fetchTrade, on mount and every 10 s: setTrade(the row)
fetchTrade(u) ==
    /\ tradeDetail.view[u].mounted
    /\ tradeDetail' = [tradeDetail EXCEPT
                          !.view[u].status = trades[tradeDetail.view[u].tradeId].status]
    /\ UNCHANGED <<tradingVars, auth, withdrawModal>>

\* the button of a handler is rendered and enabled: I Have Paid and Cancel
\* for the buyer of a trade shown as pending, Confirm for the seller of a
\* trade shown as payment_sent, none while actionLoading
Offered(u, kind) ==
    LET v == tradeDetail.view[u] IN
    /\ v.mounted /\ v.status # "none"
    /\ ~v.actionLoading
    /\ IF kind = "confirm"
       THEN trades[v.tradeId].seller_id = u /\ v.status = "payment_sent"
       ELSE trades[v.tradeId].buyer_id = u /\ v.status = "pending"

\* handleMarkPaid, handleConfirm, handleCancel up to the call of the
\* library: setActionLoading(true)
handleAction(p, kind) ==
    LET u == SessionUser[p] IN
    /\ Offered(u, kind)
    /\ pc[p] = "idle" /\ tradeDetail.run[p] = NoRun
    /\ tradeDetail' = [tradeDetail EXCEPT
                          !.view[u].actionLoading = TRUE,
                          !.run[p] = [kind |-> kind,
                                      tradeId |-> tradeDetail.view[u].tradeId,
                                      current |-> TRUE]]
    /\ UNCHANGED <<tradingVars, auth, withdrawModal>>

\* the call of the library a handler has made is the step of session p
DetailCall(p, kind) ==
    /\ tradeDetail.run[p].kind = kind
    /\ pc[p] = "idle"
    /\ call'[p].tradeId = tradeDetail.run[p].tradeId

\* the rest of a handler once the call has returned or thrown: fetchTrade
\* after a return, and finally setActionLoading(false), both on the
\* component the handler belongs to
handlerEnd(p) ==
    LET u == SessionUser[p]
        r == tradeDetail.run[p] IN
    /\ r.kind # "none"
    /\ pc[p] = "done"
    /\ tradeDetail' = [tradeDetail EXCEPT
                          !.run[p] = NoRun,
                          !.view[u] = IF ~r.current THEN @
                                      ELSE [@ EXCEPT
                                              !.actionLoading = FALSE,
                                              !.status = IF call[p].result = "ok"
                                                         THEN trades[r.tradeId].status
                                                         ELSE @]]
    /\ UNCHANGED <<tradingVars, auth, withdrawModal>>

(* ------------------------- the maker's offer --------------------------- *)
\* OfferBook.setStatus(offerId, cancelled) by the maker: terminal, and
\* rejected while the offer backs a trade that is not terminal
setStatus(p) ==
    /\ CanCall(p)
    /\ SessionUser[p] = Maker
    /\ IF \/ offer.status = "cancelled"
          \/ \E t \in TradeIds : trades[t].status \in {"pending", "payment_sent", "disputed"}
       THEN /\ FinishWith(p, NewCall(p, "setStatus", 0, 0), "Rejected")
            /\ UNCHANGED offer
       ELSE /\ offer' = [offer EXCEPT !.status = "cancelled"]
            /\ FinishWith(p, NewCall(p, "setStatus", 0, 0), "ok")
    /\ ncalls' = ncalls + 1
    /\ UNCHANGED <<trades, balances, releases, restores, everSent, now,
                   clientVars>>

\* the maker edits the price of the offer
editPrice(p) ==
    /\ CanCall(p)
    /\ SessionUser[p] = Maker
    /\ \E price \in PriceInputs \ {offer.price_per_unit} :
         offer' = [offer EXCEPT !.price_per_unit = price]
    /\ FinishWith(p, NewCall(p, "editPrice", 0, 0), "ok")
    /\ ncalls' = ncalls + 1
    /\ UNCHANGED <<trades, balances, releases, restores, everSent, now,
                   clientVars>>

(* ----------------------------- specification --------------------------- *)
Next ==
    \E p \in Procs :
        \/ CallAccept(p)
        \/ AfRpc(p)
        \/ MpUpdate(p)
        \/ MpUpdateError(p)
        \/ CpReadTrade(p)
        \/ CpRelease(p)
        \/ CpUpdate(p)
        \/ CpUpdateError(p)
        \/ CtReadTrade(p)
        \/ CtUpdateTrade(p)
        \/ CtReadOffer(p)
        \/ CtRestoreOffer(p)

Spec == Init /\ [][Next]_vars

TypeOK ==
    /\ offer.remaining_amount \in Int
    /\ offer.status \in OfferStatus
    /\ \A t \in TradeIds : trades[t].status \in TradeStatus \cup {"none"}
    /\ \A u \in Users : balances[u].available_balance \in Int
                        /\ balances[u].locked_balance \in Int
    /\ ncalls \in 0..MaxCalls
    /\ now \in 0..MaxTime

(* ------------- concurrent accepts against one offer -------------------- *)
\* every session has called acceptFiatOffer at the same time
InitAccept ==
    /\ now = 0
    /\ ClientInit
    /\ offer = NewOffer(MinBuyerCompletedTrades, MinBuyerReputation)
    /\ trades = [t \in TradeIds |-> NoTrade]
    /\ balances = [u \in Users |->
                     [available_balance |-> IF u = Maker THEN InitAvailable ELSE 0,
                      locked_balance |-> 0]]
    /\ pc = [p \in Procs |-> "af_offer"]
    /\ \E amounts \in [Procs -> AmountInputs] :
         call = [p \in Procs |-> [NoCall EXCEPT !.op = "accept",
                                                !.user = SessionUser[p],
                                                !.amount = amounts[p]]]
    /\ ncalls = NProc
    /\ releases = [t \in TradeIds |-> 0]
    /\ restores = [t \in TradeIds |-> 0]
    /\ everSent = {}

NextAccept ==
    \E p \in Procs :
        \/ AfReadOffer(p)
        \/ AfRpc(p)

SpecAccept == InitAccept /\ [][NextAccept]_vars

(* ------------- accepts against offers of any thresholds --------------- *)
\* every session has called acceptFiatOffer on an offer whose thresholds
\* are any of the inputs
InitGate ==
    /\ now = 0
    /\ ClientInit
    /\ \E mt \in MinTradesInputs, mr \in MinReputationInputs : offer = NewOffer(mt, mr)
    /\ trades = [t \in TradeIds |-> NoTrade]
    /\ balances = [u \in Users |->
                     [available_balance |-> IF u = Maker THEN InitAvailable ELSE 0,
                      locked_balance |-> 0]]
    /\ pc = [p \in Procs |-> "af_offer"]
    /\ \E amounts \in [Procs -> AmountInputs] :
         call = [p \in Procs |-> [NoCall EXCEPT !.op = "accept",
                                                !.user = SessionUser[p],
                                                !.amount = amounts[p]]]
    /\ ncalls = NProc
    /\ releases = [t \in TradeIds |-> 0]
    /\ restores = [t \in TradeIds |-> 0]
    /\ everSent = {}

NextGate ==
    \E p \in Procs :
        \/ AfReadOffer(p)
        \/ AfRpc(p)

SpecGate == InitGate /\ [][NextGate]_vars

(* ------------- accepts of any amount against an open offer ------------ *)
\* every session has called acceptFiatOffer with any of the amounts, on an
\* offer without reputation thresholds
InitOrder ==
    /\ now = 0
    /\ ClientInit
    /\ offer = NewOffer(0, 0)
    /\ trades = [t \in TradeIds |-> NoTrade]
    /\ balances = [u \in Users |->
                     [available_balance |-> IF u = Maker THEN InitAvailable ELSE 0,
                      locked_balance |-> 0]]
    /\ pc = [p \in Procs |-> "af_offer"]
    /\ \E amounts \in [Procs -> OrderAmountInputs] :
         call = [p \in Procs |-> [NoCall EXCEPT !.op = "accept",
                                                !.user = SessionUser[p],
                                                !.amount = amounts[p]]]
    /\ ncalls = NProc
    /\ releases = [t \in TradeIds |-> 0]
    /\ restores = [t \in TradeIds |-> 0]
    /\ everSent = {}

NextOrder ==
    \E p \in Procs :
        \/ AfReadOffer(p)
        \/ AfRpc(p)

SpecOrder == InitOrder /\ [][NextOrder]_vars

(* ------------- confirmations of trades that wait for them -------------- *)
\* user "a" has accepted 6 and then the remaining 4 of the offer and has
\* marked the second trade (and possibly the first) as paid
InitConfirm ==
    /\ now = 0
    /\ ClientInit
    /\ offer = [NewOffer(MinBuyerCompletedTrades, MinBuyerReputation) EXCEPT
                   !.remaining_amount = 0, !.status = "locked"]
    /\ \E st \in {"pending", "payment_sent"} :
         /\ trades = [t \in TradeIds |->
               CASE t = 1 -> [NewTrade(offer, "a", 6) EXCEPT
                                 !.status = st,
                                 !.confirmation_deadline =
                                     IF st = "payment_sent"
                                     THEN now + ConfirmationWindow ELSE 0]
                 [] t = 2 -> [NewTrade(offer, "a", 4) EXCEPT
                                 !.status = "payment_sent",
                                 !.confirmation_deadline = now + ConfirmationWindow]
                 [] OTHER -> NoTrade]
         /\ everSent = {t \in {1, 2} : t = 2 \/ st = "payment_sent"}
    /\ balances = [u \in Users |->
                     [available_balance |-> 0,
                      locked_balance |-> IF u = Maker THEN InitAvailable ELSE 0]]
    /\ pc = [p \in Procs |-> "idle"]
    /\ call = [p \in Procs |-> NoCall]
    /\ ncalls = 0
    /\ releases = [t \in TradeIds |-> 0]
    /\ restores = [t \in TradeIds |-> 0]

NextConfirm ==
    \E p \in Procs :
        \/ CpReadTrade(p)
        \/ CpRelease(p)
        \/ CpUpdate(p)
        \/ CpUpdateError(p)

SpecConfirm == InitConfirm /\ [][NextConfirm]_vars

(* ------------- the maker cancels the offer during a cancelTrade -------- *)
\* user "a" has accepted 6 of the offer
InitOfferCancel ==
    /\ now = 0
    /\ ClientInit
    /\ offer = [NewOffer(MinBuyerCompletedTrades, MinBuyerReputation) EXCEPT
                   !.remaining_amount = TotalAmount - 6]
    /\ trades = [t \in TradeIds |->
                   IF t = 1 THEN NewTrade(offer, "a", 6) ELSE NoTrade]
    /\ balances = [u \in Users |->
                     [available_balance |-> IF u = Maker THEN InitAvailable - 6 ELSE 0,
                      locked_balance |-> IF u = Maker THEN 6 ELSE 0]]
    /\ pc = [p \in Procs |-> "idle"]
    /\ call = [p \in Procs |-> NoCall]
    /\ ncalls = 0
    /\ releases = [t \in TradeIds |-> 0]
    /\ restores = [t \in TradeIds |-> 0]
    /\ everSent = {}

NextOfferCancel ==
    \E p \in Procs :
        \/ setStatus(p)
        \/ CtReadTrade(p)
        \/ CtUpdateTrade(p)
        \/ CtReadOffer(p)
        \/ CtRestoreOffer(p)

SpecOfferCancel == InitOfferCancel /\ [][NextOfferCancel]_vars

(* ------------- trades in progress while the offer's price changes ----- *)
\* the trades of InitConfirm; the maker may edit the offer's price between
\* the steps of markPaymentSent, confirmPaymentReceived and cancelTrade
NextPrice ==
    \E p \in Procs :
        \/ editPrice(p)
        \/ MpUpdate(p)
        \/ CpReadTrade(p)
        \/ CpRelease(p)
        \/ CpUpdate(p)
        \/ CtReadTrade(p)
        \/ CtUpdateTrade(p)
        \/ CtReadOffer(p)
        \/ CtRestoreOffer(p)

SpecPrice == InitConfirm /\ [][NextPrice]_vars

(* ------------- trading with withdrawals and deposits ------------------- *)
\* the sessions of the maker and of the taker who passes the thresholds
LedgerProcs == {p \in Procs : SessionUser[p] \in {Maker, "a"}}

NextLedger ==
    \/ \E p \in LedgerProcs :
         \/ CallAccept(p) \/ AfRpc(p)
         \/ MpUpdate(p)
         \/ CpReadTrade(p) \/ CpRelease(p) \/ CpUpdate(p)
         \/ CtReadTrade(p) \/ CtUpdateTrade(p)
         \/ CtReadOffer(p) \/ CtRestoreOffer(p)
         \/ RequestWithdraw(p)
    \/ Deposit

SpecLedger == Init /\ [][NextLedger]_vars

(* ------------- trades under the clock and the periodic sweep ----------- *)
NextSweep ==
    \/ \E p \in LedgerProcs :
         \/ MpUpdate(p)
         \/ CpReadTrade(p) \/ CpRelease(p) \/ CpUpdate(p)
         \/ CtReadTrade(p) \/ CtUpdateTrade(p)
         \/ CtReadOffer(p) \/ CtRestoreOffer(p)
    \/ \E t \in TradeIds : deadlineExpire(t) \/ confirmationDeadlineExpire(t)
    \/ Tick

\* the sweep runs periodically: a transition it can make for good is made
SpecSweep ==
    /\ InitConfirm
    /\ [][NextSweep]_vars
    /\ \A t \in TradeIds : /\ WF_vars(deadlineExpire(t))
                            /\ WF_vars(confirmationDeadlineExpire(t))

(* ------------- marks and confirmations under the clock ----------------- *)
NextDispute ==
    \/ \E p \in LedgerProcs :
         \/ MpUpdate(p)
         \/ CpReadTrade(p) \/ CpRelease(p) \/ CpUpdate(p)
    \/ \E t \in TradeIds : deadlineExpire(t) \/ confirmationDeadlineExpire(t)
    \/ Tick

SpecDispute ==
    /\ InitConfirm
    /\ [][NextDispute]_vars
    /\ \A t \in TradeIds : /\ WF_vars(deadlineExpire(t))
                            /\ WF_vars(confirmationDeadlineExpire(t))

(* ------------- accepts from the modal and from the library ------------- *)
NextModal ==
    \E p \in Procs :
        \/ handleInitiateTrade(p)
        \/ CallAccept(p)
        \/ AfRpc(p)

SpecModal == Init /\ [][NextModal]_vars

(* ------------- the provider over several openings of the app ---------- *)
NextAuth ==
    \/ Mount
    \/ IaStart \/ IaInvoke \/ IaTg \/ LgInvoke \/ IaParams \/ LpInvoke
    \/ Logout \/ LoginButton

\* every invoke returns or throws, and the code between two awaits runs
SpecAuth ==
    /\ Init
    /\ [][NextAuth]_vars
    /\ WF_vars(IaStart) /\ WF_vars(IaInvoke) /\ WF_vars(IaTg)
    /\ WF_vars(LgInvoke) /\ WF_vars(IaParams) /\ WF_vars(LpInvoke)

(* ------------- withdrawals from the modal while balances change ------- *)
NextWithdraw ==
    \/ \E p \in LedgerProcs :
         \/ fetchBalance(p)
         \/ handleWithdraw(p)
         \/ CallAccept(p) \/ AfRpc(p)
    \/ Deposit

SpecWithdraw == Init /\ [][NextWithdraw]_vars

(* ------------- the handlers of TradeDetail under the dashboard --------- *)
NextDetail ==
    \/ \E u \in Users : OpenDetail(u) \/ BackFromDetail(u) \/ fetchTrade(u)
    \/ \E p \in Procs :
         \/ \E kind \in {"mark", "confirm", "cancel"} : handleAction(p, kind)
         \/ MpUpdate(p) /\ DetailCall(p, "mark")
         \/ CpReadTrade(p) /\ DetailCall(p, "confirm")
         \/ CpRelease(p) \/ CpUpdate(p)
         \/ CtReadTrade(p) /\ DetailCall(p, "cancel")
         \/ CtUpdateTrade(p) \/ CtReadOffer(p) \/ CtRestoreOffer(p)
         \/ handlerEnd(p)

SpecDetail == InitConfirm /\ [][NextDetail]_vars

(* ------------- cancelTrade with failing database calls ----------------- *)
\* user "a" has accepted 6 of the offer; the calls are cancelTrade calls, any
\* of whose awaits after the first read may return an error
NextCancel ==
    \E p \in Procs :
        \/ CtReadTrade(p)
        \/ CtUpdateTrade(p)
        \/ CtUpdateTradeError(p)
        \/ CtReadOffer(p)
        \/ CtReadOfferNone(p)
        \/ CtRestoreOffer(p)
        \/ CtRestoreOfferError(p)

SpecCancel == InitOfferCancel /\ [][NextCancel]_vars

(* ------------------------------ properties ----------------------------- *)
AllTrades == {t \in TradeIds : Exists(t)}

crypto_amount == [t \in TradeIds |-> trades[t].crypto_amount]

\* trades whose escrow is still held
HoldsEscrow(t) == trades[t].status \in {"pending", "payment_sent", "disputed"}

Quiescent == \A p \in Procs : pc[p] \in {"idle", "done"}

Succeeded(p, o) == pc[p] = "done" /\ call[p].op = o /\ call[p].result = "ok"

\* C1: the escrow of a trade is released at most once, whatever the
\* interleaving of confirmPaymentReceived calls, retries included
C1_ReleaseAtMostOnce == \A t \in TradeIds : releases[t] <= 1

\* C2: a status transition is written only when the status at the moment of
\* the write is the expected prior status (pending for payment_sent and
\* cancelled, payment_sent for completed)
C2_TransitionFromExpected ==
    [][\A t \in TradeIds :
         (Exists(t) /\ trades'[t].status # trades[t].status) =>
            \/ trades'[t].status = "payment_sent" /\ trades[t].status = "pending"
            \/ trades'[t].status = "cancelled" /\ trades[t].status = "pending"
            \/ trades'[t].status = "completed" /\ trades[t].status = "payment_sent"]_vars

\* C3: completed, cancelled and refunded are terminal
C3_TerminalStatus ==
    [][\A t \in TradeIds :
         trades[t].status \in {"completed", "cancelled", "refunded"} =>
            trades'[t].status = trades[t].status]_vars

\* C4: a trade that has ever been payment_sent is never cancelled, and the
\* offer is never restored for a trade that is payment_sent or completed
C4_NoCancelAfterPaymentSent ==
    \A t \in TradeIds :
        /\ t \in everSent => trades[t].status # "cancelled"
        /\ trades[t].status \in {"payment_sent", "completed"} => restores[t] = 0

\* C5: the maker's locked balance is the sum of crypto_amount over the
\* maker's trades that still hold escrow
C5_LockedMatchesOpenTrades ==
    balances[Maker].locked_balance =
        SumOver({t \in AllTrades : HoldsEscrow(t)}, crypto_amount)

\* C6: after a successful cancelTrade that ran alone, the trade is cancelled,
\* remaining_amount has grown by crypto_amount, and the maker's locked
\* balance has decreased and available balance increased by that amount
OthersNeverCalled(p) == \A q \in Procs \ {p} : pc[q] = "idle"

C6_CancelEffects ==
    \A p \in Procs :
        (Succeeded(p, "cancel") /\ OthersNeverCalled(p)) =>
            LET t == call[p].tradeId
                a == trades[t].crypto_amount
            IN  /\ trades[t].status = "cancelled"
                /\ offer.remaining_amount = call[p].pre.remaining + a
                /\ balances[Maker].locked_balance = call[p].pre.locked - a
                /\ balances[Maker].available_balance = call[p].pre.available + a

\* C7: 0 <= remaining_amount <= amount_crypto of the offer
C7_RemainingInRange ==
    offer.remaining_amount >= 0 /\ offer.remaining_amount <= TotalAmount

\* C8: remaining_amount is restored at most once per cancelled trade
C8_RestoreAtMostOnce == \A t \in TradeIds : restores[t] <= 1

\* C9: under interleavings of accepts with cancellations of other trades
\* (no trade was ever payment_sent, no trade was restored twice), in every
\* quiescent state remaining_amount plus the crypto_amount of the offer's
\* trades that are not cancelled or refunded is the offer's total
OnlyAcceptsAndCancels ==
    everSent = {} /\ \A t \in TradeIds : restores[t] <= 1

C9_NoLostUpdate ==
    (Quiescent /\ OnlyAcceptsAndCancels) =>
        offer.remaining_amount
          + SumOver({t \in AllTrades : trades[t].status \notin {"cancelled", "refunded"}},
                    crypto_amount)
        = TotalAmount

\* C10: concurrent accepts of 6 against remaining_amount 10: exactly one
\* succeeds, the others that passed the reputation check fail with
\* AmountExceedsRemaining, and remaining_amount ends at 4; in general the
\* accepted amounts and remaining_amount add up to the offer's total
AllSix == \A p \in Procs : call[p].amount = 6

C10_OneWinner ==
    /\ offer.remaining_amount >= 0
    /\ offer.remaining_amount + SumOver(AllTrades, crypto_amount) = TotalAmount
    /\ (AllSix /\ Quiescent) =>
          /\ Cardinality({p \in Procs : call[p].result = "ok"}) = 1
          /\ \A p \in Procs : call[p].result \in
                {"ok", "AmountExceedsRemaining", "InsufficientHistory"}
          /\ \A p \in Procs : call[p].result = "InsufficientHistory"
                                 => ~ReputationOk(SessionUser[p])
          /\ offer.remaining_amount = 4

C10_Witness ==
    /\ AllSix /\ Quiescent
    /\ \E p, q \in Procs : /\ call[p].result = "ok"
                           /\ call[q].result = "AmountExceedsRemaining"

\* C11: once the offer is cancelled by the maker, no later step (in
\* particular no restore of a trade cancellation) changes its status
C11_CancelledOfferStays ==
    [][offer.status = "cancelled" => offer'.status = "cancelled"]_vars

\* C12: only the trade's taker moves it to payment_sent: every
\* markPaymentSent call that has succeeded was made by the trade's buyer
C12_OnlyTakerMarks ==
    \A p \in Procs :
        Succeeded(p, "mark") => SessionUser[p] = trades[call[p].tradeId].buyer_id

\* C14: a trade is cancelled only by its taker or its maker: every
\* cancelTrade call that has succeeded was made by a party of the trade
C14_OnlyPartiesCancel ==
    \A p \in Procs :
        Succeeded(p, "cancel") =>
            SessionUser[p] \in {trades[call[p].tradeId].buyer_id,
                                trades[call[p].tradeId].seller_id}

\* C15: markPaymentSent writes (status, buyer_marked_paid_at, proof and
\* confirmation_deadline) only on a trade that is pending; on any other
\* trade it is rejected
C15_MarkOnlyPending ==
    [][\A p \in Procs : \A t \in TradeIds :
         (MpUpdate(p) /\ call'[p].tradeId = t) => trades[t].status = "pending"]_vars

\* C13: confirmPaymentReceived called by a user who is not the trade's
\* seller is rejected with the trades and balances unchanged, and the escrow
\* release is only ever called on behalf of the seller
C13_OnlySellerConfirms ==
    [][\A p \in Procs :
         /\ (CpReadTrade(p) /\ SessionUser[p] # trades[call'[p].tradeId].seller_id) =>
                /\ pc'[p] = "done"
                /\ call'[p].result = "OnlySellerCanConfirm"
                /\ trades' = trades /\ balances' = balances
         /\ CpRelease(p) => SessionUser[p] = trades[call[p].tradeId].seller_id]_vars

\* a user who is not the seller has tried to confirm a payment_sent trade
C13_Witness ==
    \E p \in Procs :
        /\ pc[p] = "done" /\ call[p].op = "confirm"
        /\ call[p].result = "OnlySellerCanConfirm"
        /\ trades[call[p].tradeId].status = "payment_sent"
        /\ SessionUser[p] = trades[call[p].tradeId].buyer_id

\* C16: once confirmPaymentReceived has succeeded for a trade (its escrow
\* was released and the call has returned), the trade is completed, and
\* when no call is running the maker's locked balance has decreased and the
\* buyer's available balance has increased by the crypto_amount of exactly
\* the confirmed trades (a trade confirmed again counts once); all of the
\* maker's deposit is locked when the calls start
Confirmed == {t \in TradeIds : releases[t] > 0}

C16_ConfirmEffects ==
    /\ \A p \in Procs :
          Succeeded(p, "confirm") => trades[call[p].tradeId].status = "completed"
    /\ Quiescent =>
          /\ \A t \in Confirmed : trades[t].status = "completed"
          /\ balances[Maker].locked_balance = InitAvailable - SumOver(Confirmed, crypto_amount)
          /\ balances["a"].available_balance = SumOver(Confirmed, crypto_amount)

\* C17: a trade whose escrow_locked_amount is positive is pending or
\* payment_sent
C17_EscrowOnlyWhileOpen ==
    \A t \in TradeIds :
        trades[t].escrow_locked_amount > 0 =>
            trades[t].status \in {"pending", "payment_sent"}

\* the eligibility of user u for the offer, as the design states it: both
\* thresholds are zero, or u has a reputation record that meets both
Pass(u) ==
    \/ offer.min_buyer_completed_trades = 0 /\ offer.min_buyer_reputation = 0
    \/ /\ p2p_reputation[u] # NoReputation
       /\ p2p_reputation[u].completed_trades >= offer.min_buyer_completed_trades
       /\ p2p_reputation[u].reputation_score >= offer.min_buyer_reputation

\* C18: an acceptFiatOffer that fails the reputation check ends there, with
\* the offer, the balances and the trades unchanged, and the accept
\* procedure is about to be called only for a caller who passed
C18_GateBeforeReservation ==
    [][\A p \in Procs :
         /\ (pc[p] = "af_offer" /\ call'[p].result = "InsufficientHistory") =>
                /\ pc'[p] = "done"
                /\ offer' = offer /\ balances' = balances /\ trades' = trades
         /\ (pc[p] = "af_offer" /\ pc'[p] # "af_offer" /\ ~Pass(SessionUser[p])) =>
                call'[p].result = "InsufficientHistory"
         /\ pc'[p] = "af_rpc" => Pass(SessionUser[p])]_vars

\* a caller has failed the check while another one has accepted
C18_Witness ==
    \E p, q \in Procs :
        /\ pc[p] = "done" /\ call[p].result = "InsufficientHistory"
        /\ pc[q] = "done" /\ call[q].result = "ok"
        /\ offer.remaining_amount + SumOver(AllTrades, crypto_amount) = TotalAmount

\* C19: the reputation check of acceptFiatOffer fails exactly for the
\* callers who are not eligible
C19_EligibilityExact ==
    \A p \in Procs :
        pc[p] # "af_offer" =>
            (call[p].result = "InsufficientHistory" <=> ~Pass(SessionUser[p]))

\* the thresholds are exactly what user "a" has: "a" passes and "b", who has
\* no record, fails
C19_Witness ==
    /\ offer.min_buyer_completed_trades = 2 /\ offer.min_buyer_reputation = 50
    /\ \E p, q \in Procs :
        /\ SessionUser[p] = "a" /\ pc[p] = "af_rpc"
        /\ SessionUser[q] = "b" /\ call[q].result = "InsufficientHistory"

\* C20: when the accept procedure runs with an amount the offer can
\* reserve but the maker's available balance cannot cover, the caller gets
\* MakerInsufficientBalance, remaining_amount and the offer's status are as
\* before the accept, and no trade is created
C20_LockFailureCompensated ==
    [][\A p \in Procs :
         LET amount == TradeAmount(call[p].amount, call[p].remaining) IN
         (/\ AfRpc(p)
          /\ tryReserveResult(offer, amount) = "ok"
          /\ ~lockOk(balances, Maker, amount)) =>
             /\ call'[p].result = "MakerInsufficientBalance"
             /\ offer' = offer /\ trades' = trades /\ balances' = balances]_vars

\* an accept has failed on the maker's balance although the offer had the
\* amount
C20_Witness ==
    \E p \in Procs :
        /\ pc[p] = "done" /\ call[p].op = "accept"
        /\ call[p].result = "MakerInsufficientBalance"
        /\ offer.status = "open"
        /\ offer.remaining_amount >= call[p].amount
        /\ balances[Maker].available_balance < offer.remaining_amount

\* C21: a successful accept of amount a (the remaining amount read by the
\* call when a is omitted) creates exactly one trade, pending, of the caller,
\* with crypto_amount a and fiat_amount a * price_per_unit, decreases
\* remaining_amount by a and moves a from the maker's available to the
\* maker's locked balance; nothing else changes
C21_AcceptEffects ==
    [][\A p \in Procs :
         (AfRpc(p) /\ call'[p].result = "ok") =>
            LET a == IF call[p].amount # 0 THEN call[p].amount ELSE call[p].remaining
                t == call'[p].tradeId
            IN  /\ ~Exists(t)
                /\ trades'[t].status = "pending"
                /\ trades'[t].buyer_id = SessionUser[p]
                /\ trades'[t].crypto_amount = a
                /\ trades'[t].fiat_amount = a * offer.price_per_unit
                /\ \A s \in TradeIds \ {t} : trades'[s] = trades[s]
                /\ offer'.remaining_amount = offer.remaining_amount - a
                /\ balances'[Maker].available_balance = balances[Maker].available_balance - a
                /\ balances'[Maker].locked_balance = balances[Maker].locked_balance + a
                /\ \A u \in Users \ {Maker} : balances'[u] = balances[u]]_vars

\* user "a" has accepted 6 of the 10 at price 2: fiat 12, remaining 4,
\* 6 locked
C21_Witness ==
    \E p \in Procs :
        /\ Succeeded(p, "accept") /\ call[p].amount = 6
        /\ trades[call[p].tradeId].fiat_amount = 12
        /\ trades[call[p].tradeId].status = "pending"
        /\ offer.remaining_amount = 4
        /\ balances[Maker] = [available_balance |-> 4, locked_balance |-> 6]

\* C26: an offer whose status is open has a positive remaining_amount
C26_OpenHasRemaining ==
    offer.status = "open" => offer.remaining_amount > 0

\* accepts have taken the whole offer (which locked it) and the
\* cancellation of a trade has reopened it
C26_Witness ==
    /\ SumOver(AllTrades, crypto_amount) = TotalAmount
    /\ \E t \in TradeIds : restores[t] > 0
    /\ offer.status = "open"

C29_ReleasedIffCompleted ==
    Quiescent =>
        \A t \in TradeIds : releases[t] > 0 <=> trades[t].status = "completed"

\* C30: when no cancelTrade call is running, a trade is cancelled if and
\* only if the offer has been restored for it
C30_CancelledIffRestored ==
    Quiescent =>
        \A t \in TradeIds : trades[t].status = "cancelled" <=> restores[t] > 0

\* C24: crypto_amount, price_per_unit and fiat_amount of a trade never
\* change once the trade exists, whatever markPaymentSent,
\* confirmPaymentReceived, cancelTrade and edits of the offer's price do
C24_AmountsFixed ==
    [][\A t \in TradeIds :
         Exists(t) =>
            /\ trades'[t].crypto_amount = trades[t].crypto_amount
            /\ trades'[t].price_per_unit = trades[t].price_per_unit
            /\ trades'[t].fiat_amount = trades[t].fiat_amount]_vars

\* the offer's price is no longer the price of a trade that has since been
\* completed, and of one that has been cancelled
C24_Witness ==
    \E t, s \in TradeIds :
        /\ trades[t].status = "completed" /\ trades[s].status = "cancelled"
        /\ t \in everSent
        /\ offer.price_per_unit # trades[t].price_per_unit
        /\ trades[t].fiat_amount = trades[t].crypto_amount * trades[t].price_per_unit


\* the sum over all users of available + locked
TotalValue(b) ==
    SumOver(Users, [u \in Users |-> b[u].available_balance + b[u].locked_balance])

\* C22: available >= 0 and locked >= 0 for every user in every reachable
\* state, under any interleaving of accepts, cancels, confirms, deposits and
\* withdrawal requests; a withdrawal of more than the available balance fails
\* and changes no balance
C22_BalancesNonNegative ==
    /\ [](\A u \in Users : /\ balances[u].available_balance >= 0
                            /\ balances[u].locked_balance >= 0)
    /\ [][\A p \in Procs :
            (/\ RequestWithdraw(p)
             /\ call'[p].amount > balances[SessionUser[p]].available_balance)
            => /\ call'[p].result # "ok"
               /\ balances' = balances]_vars

C22_Witness ==
    /\ \E p \in Procs :
         /\ pc[p] = "done" /\ call[p].op = "withdraw"
         /\ call[p].result = "InsufficientBalance"
         /\ call[p].amount > balances[SessionUser[p]].available_balance
    /\ balances[Maker].locked_balance > 0
    /\ TotalValue(balances) > InitAvailable

\* C23: the sum over all users of available + locked changes only by a
\* deposit credit or a withdrawal debit; accept, markPaymentSent, cancel and
\* confirm leave it unchanged, and only the escrow release changes the
\* balances of two users
C23_ValueConserved ==
    [][/\ TotalValue(balances') # TotalValue(balances)
          => Deposit \/ \E p \in Procs : RequestWithdraw(p)
       /\ Cardinality({u \in Users : balances'[u] # balances[u]}) >= 2
          => \E p \in Procs : CpRelease(p)
       /\ \A p \in Procs :
            (\/ AfRpc(p) \/ MpUpdate(p) \/ CpRelease(p) \/ CpUpdate(p)
             \/ CtUpdateTrade(p) \/ CtRestoreOffer(p))
            => TotalValue(balances') = TotalValue(balances)]_vars

C23_Witness ==
    /\ \E t \in TradeIds :
         /\ releases[t] > 0 /\ trades[t].status = "completed"
         /\ balances[trades[t].buyer_id].available_balance >= trades[t].crypto_amount
    /\ TotalValue(balances) = InitAvailable + 5

C28_ExpiredConfirmationDisputed ==
    /\ \A t \in TradeIds :
         (trades[t].status = "payment_sent" /\ now > trades[t].confirmation_deadline)
         ~> (\/ trades[t].status # "payment_sent"
             \/ now <= trades[t].confirmation_deadline)
    /\ [][/\ \A p \in Procs : MpUpdate(p) =>
               trades'[call'[p].tradeId].confirmation_deadline
                   = now + ConfirmationWindow
          /\ \A t \in TradeIds :
               (/\ trades[t].status = "payment_sent"
                /\ trades'[t].status # "payment_sent"
                /\ pc' = pc)
               => /\ now > trades[t].confirmation_deadline
                  /\ trades'[t].status = "disputed"
                  /\ balances' = balances
                  /\ offer' = offer]_vars

C28_Witness ==
    \E t \in TradeIds :
        /\ trades[t].status = "disputed"
        /\ now > trades[t].confirmation_deadline
        /\ \E p \in Procs : Succeeded(p, "mark") /\ call[p].tradeId = t
        /\ releases[t] = 0
        /\ balances[Maker].locked_balance = InitAvailable

\* C31: no trade has the same user as seller and as buyer: an accept by the
\* offer's own maker never creates a trade, from TradeModal or from a call
\* of acceptFiatOffer
C31_NoSelfTrade ==
    \A t \in TradeIds : Exists(t) => trades[t].buyer_id # trades[t].seller_id

\* C32: acceptFiatOffer asks to reserve the given amount when it is not 0
\* and the remaining_amount it read when it is 0: the rpc step answers and
\* acts as the reservation of that amount does, so an amount of 0 takes the
\* whole remainder read instead of being rejected
C32_RequestedAmount ==
    [][\A p \in Procs : AfRpc(p) =>
          LET requested == IF call[p].amount # 0 THEN call[p].amount
                           ELSE call[p].remaining
          IN  IF tryReserveResult(offer, requested) = "ok"
                 /\ lockOk(balances, Maker, requested)
              THEN /\ call'[p].result = "ok"
                   /\ trades'[call'[p].tradeId].crypto_amount = requested
                   /\ offer'.remaining_amount = offer.remaining_amount - requested
              ELSE /\ call'[p].result # "ok"
                   /\ call'[p].result # "ValidationError"
                      \/ requested <= 0
                   /\ trades' = trades /\ offer' = offer]_vars

C32_Witness ==
    \E p \in Procs :
        /\ Succeeded(p, "accept") /\ call[p].amount = 0
        /\ trades[call[p].tradeId].crypto_amount = 4
        /\ offer.remaining_amount = 0

\* C33: the id installed by setCurrentUserId is an id of the user the
\* answer of telegram-auth returned (the user of the provider), on every
\* login path and after a logout, another login and a session restore
C33_InstalledIdOfUser ==
    (auth.user # "-" /\ auth.currentUserId # "-")
    => auth.currentUserId \in {UserIdOf[auth.user], AuthUserIdOf[auth.user]}

\* C35: once the app is opened, on every path of initAuth, login and
\* loginViaParams isLoading becomes false
C35_LoadingEnds == (auth.pc # "off" /\ auth.isLoading) ~> ~auth.isLoading

C35_Witness ==
    /\ auth.pc = "ready" /\ ~auth.isLoading
    /\ auth.user = "-" /\ auth.p2p_session # "-"
    /\ auth.telegram = "-" /\ auth.params # NoParams /\ ~auth.params.expired

\* C34: WithdrawModal submits no withdrawal request for more than the
\* user's available balance, also when the balance was not loaded or has
\* changed since it was loaded
C34_ModalWithinBalance ==
    [][\A p \in Procs :
          (handleWithdraw(p) /\ call'[p].result \in {"ok", "InsufficientBalance"})
          => call'[p].amount <= balances[SessionUser[p]].available_balance]_vars

\* the sessions of user u in which a handler of TradeDetail runs
RunningHandlers(u) ==
    {p \in Procs : SessionUser[p] = u /\ tradeDetail.run[p].kind # "none"}

\* C36: a user never has two handlers of TradeDetail running, and while one
\* runs the TradeDetail the user sees has actionLoading true; a handler
\* starts only from a button offered (buyer and pending for mark and cancel,
\* seller and payment_sent for confirm), and its end sets actionLoading
\* false on its component
C36_OneActionInFlight ==
    /\ [](\A u \in Users :
            /\ Cardinality(RunningHandlers(u)) <= 1
            /\ (RunningHandlers(u) # {} /\ tradeDetail.view[u].mounted)
               => tradeDetail.view[u].actionLoading)
    /\ [][\A p \in Procs :
            LET u == SessionUser[p]
                v == tradeDetail.view[u] IN
            /\ \A kind \in {"mark", "cancel"} :
                 handleAction(p, kind) => (/\ trades[v.tradeId].buyer_id = u
                                           /\ v.status = "pending")
            /\ handleAction(p, "confirm") => (/\ trades[v.tradeId].seller_id = u
                                               /\ v.status = "payment_sent")
            /\ (handlerEnd(p) /\ tradeDetail.run[p].current)
               => ~tradeDetail'.view[u].actionLoading]_vars

====
